---- MODULE Spec2Model ----
(***************************************************************************)
(* Rolling price window and regression predictor of the BidSuggestions     *)
(* component (frontend/src/pages/Portfolio.tsx).                           *)
(*                                                                         *)
(* Units: prices are integers in cents (0.01), times are milliseconds.     *)
(* A window sample is [price, timestamp]; the hour, demand and             *)
(* renewablePercentage fields of a sample are written by the code but      *)
(* never read by the window or the predictor, and are left out.            *)
(* marketData is represented by its currentPrice; an absent marketData or  *)
(* an absent currentPrice is the falsy value 0.                            *)
(***************************************************************************)
EXTENDS Integers, Sequences, FiniteSets, TLC

VARIABLES
    priceHistory,       \* useState([])   rolling window of samples
    regressionModel,    \* useState(null) fitted model, NoModel for null
    suggestionsActive,  \* useState(true)
    currentPrice,       \* marketData?.currentPrice (0 when absent)
    now,                \* Date.now()
    mounted,            \* the mount effects have run
    appended,           \* number of samples appended since mount
    lastRecord,         \* what the effects did with the last market update
    prediction,         \* last value returned by predictPriceWithRegression
    dayAheadBids,       \* App: useState([])   the bid list
    portfolio,          \* App: useState({cashBalance: 10000, positions: []})
    bidForm,            \* App: useState({hour, action, price, quantity})
    localHour,          \* new Date().getHours()
    submissions,        \* submitBid invocations past their checks, not yet settled
    alertShown,         \* the last alert() of submitBid
    submitted,          \* number of submitBid invocations that passed the checks
    persistedLoaded,    \* loadPersistedData has set the state
    analysisMode,       \* useState('moderate')
    suggestionType,     \* useState('both')
    suggestions,        \* useState([])   the displayed suggestions
    allSuggestions,     \* the list of the last generation, before filtering
    suggestionsMounted, \* the suggestion effects have run once
    sockets,            \* WebSocketService: every socket created, by state
    ws,                 \* this.ws: index into sockets, 0 for null
    isConnecting,       \* this.isConnecting
    reconnectAttempts,  \* this.reconnectAttempts
    reconnectInterval,  \* this.reconnectInterval
    timers,             \* reconnect timers started and not yet fired
    scheduledSinceOpen, \* reconnects scheduled since the last onopen
    stayDisconnected    \* disconnect() was the last explicit call, on an open socket

predictorVars == <<priceHistory, regressionModel, suggestionsActive, currentPrice, now,
                   mounted, appended, lastRecord, prediction>>

bidVars == <<dayAheadBids, portfolio, bidForm, localHour, submissions, alertShown,
             submitted, persistedLoaded>>

suggestVars == <<analysisMode, suggestionType, suggestions, allSuggestions,
                 suggestionsMounted>>

socketVars == <<sockets, ws, isConnecting, reconnectAttempts, reconnectInterval, timers,
                scheduledSinceOpen, stayDisconnected>>

vars == <<priceHistory, regressionModel, suggestionsActive, currentPrice, now,
          mounted, appended, lastRecord, prediction,
          dayAheadBids, portfolio, bidForm, localHour, submissions, alertShown,
          submitted, persistedLoaded,
          analysisMode, suggestionType, suggestions, allSuggestions, suggestionsMounted,
          sockets, ws, isConnecting, reconnectAttempts, reconnectInterval, timers,
          scheduledSinceOpen, stayDisconnected>>

----------------------------------------------------------------------------
(* Program constants *)

WindowCap == 50
SyntheticCount == 20
SyntheticSpacing == 120000
SyntheticFloor == 2000
DupEpsilon == 1
DupWindow == 30000
TickIdle == 45000
DefaultPrice == 4500
MinFitPoints == 3
MinPolyPoints == 5
TrendEpsilon == 1

(* Bounds of the model *)

MaxManual == 3
MaxAppended == 31

(* Input sets *)

Instants == {0, 30000, 60000}
MarketPrices == {-500, 0, 4500, 4550}
Variation == {98, 100}
SyntheticMults == {100, 104}

----------------------------------------------------------------------------
(* Helpers *)

Abs(x) == IF x < 0 THEN -x ELSE x

Max(a, b) == IF a >= b THEN a ELSE b

Min(a, b) == IF a <= b THEN a ELSE b

\* p * pct / 100; exact for the input sets above
Percent(p, pct) == (p * pct) \div 100

\* Array.prototype.slice(-n)
\* variant: the window is never cut
SliceLastUncapped(s, n) == s

\* variant: the window keeps its first n samples
SliceFirst(s, n) == IF Len(s) <= n THEN s ELSE SubSeq(s, 1, n)

\* variant: reaching the capacity trims the window to its newest half
SliceLastHalved(s, n) == IF Len(s) < n THEN s ELSE SubSeq(s, Len(s) - (n \div 2) + 1, Len(s))

SliceLast(s, n) == IF Len(s) <= n THEN s ELSE SubSeq(s, Len(s) - n + 1, Len(s))

Sample(p, t) == [price |-> p, timestamp |-> t]

Prices(hist) == [i \in 1..Len(hist) |-> hist[i].price]

\* marketData?.currentPrice || 45.0
\* variant: an absent price is not replaced by the default
BasePriceNoDefault(cur) == cur

BasePrice(cur) == IF cur # 0 THEN cur ELSE DefaultPrice

----------------------------------------------------------------------------
(* The regression model.  The fitted fields (type, slope, intercept,       *)
(* coefficients, rSquared, trend) are a deterministic function of the      *)
(* yData the fit was run on; the model keeps yData and the fields are      *)
(* derived from it where they are read.                                    *)

NoModel == [fitted |-> FALSE, dataPoints |-> 0, lastUpdate |-> 0, yData |-> <<>>]

FitModel(hist, t) ==
    [fitted |-> TRUE, dataPoints |-> Len(hist), lastUpdate |-> t, yData |-> Prices(hist)]

----------------------------------------------------------------------------
(* Exact rational arithmetic: <<numerator, denominator>>, denominator > 0, *)
(* in lowest terms.  It stands for the code's floating-point numbers.      *)

RECURSIVE GCD(_, _)
GCD(a, b) == IF b = 0 THEN a ELSE GCD(b, a % b)

Norm(n, d) ==
    IF n = 0 THEN <<0, 1>>
    ELSE LET g == GCD(Abs(n), Abs(d))
             sgn == IF d < 0 THEN -1 ELSE 1
         IN <<sgn * (n \div g), sgn * (d \div g)>>

R(i) == <<i, 1>>

\* the operations reduce by common factors before multiplying, to keep the
\* intermediate integers small
RAdd(a, b) ==
    LET g == GCD(a[2], b[2])
    IN Norm(a[1] * (b[2] \div g) + b[1] * (a[2] \div g), (a[2] \div g) * b[2])
RNeg(a) == <<-a[1], a[2]>>
RSub(a, b) == RAdd(a, RNeg(b))
RMul(a, b) ==
    LET g1 == GCD(Abs(a[1]), b[2])
        g2 == GCD(Abs(b[1]), a[2])
    IN IF a[1] = 0 \/ b[1] = 0 THEN <<0, 1>>
       ELSE <<(a[1] \div g1) * (b[1] \div g2), (a[2] \div g2) * (b[2] \div g1)>>
RInv(a) == IF a[1] < 0 THEN <<-a[2], -a[1]>> ELSE <<a[2], a[1]>>
RDiv(a, b) == RMul(a, RInv(b))
RLt(a, b) ==
    LET g == GCD(a[2], b[2])
    IN a[1] * (b[2] \div g) < b[1] * (a[2] \div g)
RLe(a, b) == ~RLt(b, a)
RMax(a, b) == IF RLt(a, b) THEN b ELSE a
RMin(a, b) == IF RLt(b, a) THEN b ELSE a
RSq(a) == RMul(a, a)
RAbs(a) == <<Abs(a[1]), a[2]>>

RECURSIVE RSumTo(_, _)
RSumTo(s, n) == IF n = 0 THEN R(0) ELSE RAdd(RSumTo(s, n - 1), s[n])

\* reduce((sum, v) => sum + v, 0) over a sequence of rationals
RSum(s) == RSumTo(s, Len(s))

RECURSIVE ISumTo(_, _)
ISumTo(s, n) == IF n = 0 THEN 0 ELSE ISumTo(s, n - 1) + s[n]

\* the same over a sequence of integers
ISum(s) == ISumTo(s, Len(s))

\* newHistory.map((_, i) => i)
Indices(n) == [i \in 1..n |-> i - 1]

----------------------------------------------------------------------------
(* computeLinearRegression(xData, yData), integer data                    *)

computeLinearRegression(xData, yData) ==
    LET n == Len(xData)
    IN IF n < 2 THEN [slope |-> R(0), intercept |-> R(0), rSquared |-> R(0)]
       ELSE
       LET xMean == Norm(ISum(xData), n)
           yMean == Norm(ISum(yData), n)
           dx(i) == RSub(R(xData[i]), xMean)
           dy(i) == RSub(R(yData[i]), yMean)
           numerator == RSum([i \in 1..n |-> RMul(dx(i), dy(i))])
           denominator == RSum([i \in 1..n |-> RSq(dx(i))])
           ssTotal == RSum([i \in 1..n |-> RSq(dy(i))])
           slope == IF denominator # R(0) THEN RDiv(numerator, denominator) ELSE R(0)
           intercept == RSub(yMean, RMul(slope, xMean))
           predicted(i) == RAdd(RMul(slope, R(xData[i])), intercept)
           ssRes == RSum([i \in 1..n |-> RSq(RSub(R(yData[i]), predicted(i)))])
           rSquared == IF ssTotal # R(0) THEN RSub(R(1), RDiv(ssRes, ssTotal)) ELSE R(0)
       IN [slope |-> slope, intercept |-> intercept, rSquared |-> RMax(R(0), rSquared)]

(* computePolynomialRegression(xData, yData, 2).  XTX and XTy are integer  *)
(* sums, so Math.abs(det) < 1e-10 is det = 0.  Nothing in the try block    *)
(* throws, so the catch branch is not taken.                               *)

computePolynomialRegression(xData, yData) ==
    LET n == Len(xData)
    IN IF n < 3 THEN [coefficients |-> <<R(0), R(0), R(0)>>, rSquared |-> R(0)]
       ELSE
       LET pow(x, j) == IF j = 0 THEN 1 ELSE IF j = 1 THEN x ELSE x * x
           XTX(a, b) == ISum([i \in 1..n |-> pow(xData[i], a) * pow(xData[i], b)])
           XTy(a) == ISum([i \in 1..n |-> pow(xData[i], a) * yData[i]])
           det == XTX(0,0) * (XTX(1,1) * XTX(2,2) - XTX(1,2) * XTX(2,1)) -
                  XTX(0,1) * (XTX(1,0) * XTX(2,2) - XTX(1,2) * XTX(2,0)) +
                  XTX(0,2) * (XTX(1,0) * XTX(2,1) - XTX(1,1) * XTX(2,0))
           linear == computeLinearRegression(xData, yData)
       IN IF det = 0
          THEN [coefficients |-> <<linear.intercept, linear.slope, R(0)>>,
                rSquared |-> linear.rSquared]
          ELSE
          LET c0 == Norm(XTy(0) * (XTX(1,1) * XTX(2,2) - XTX(1,2) * XTX(2,1)) -
                         XTX(0,1) * (XTy(1) * XTX(2,2) - XTy(2) * XTX(1,2)) +
                         XTX(0,2) * (XTy(1) * XTX(2,1) - XTy(2) * XTX(1,1)), det)
              c1 == Norm(XTX(0,0) * (XTy(1) * XTX(2,2) - XTy(2) * XTX(1,2)) -
                         XTy(0) * (XTX(1,0) * XTX(2,2) - XTX(1,2) * XTX(2,0)) +
                         XTX(0,2) * (XTX(1,0) * XTy(2) - XTy(1) * XTX(2,0)), det)
              c2 == Norm(XTX(0,0) * (XTX(1,1) * XTy(2) - XTy(1) * XTX(2,1)) -
                         XTX(0,1) * (XTX(1,0) * XTy(2) - XTy(1) * XTX(2,0)) +
                         XTy(0) * (XTX(1,0) * XTX(2,1) - XTX(1,1) * XTX(2,0)), det)
              yMean == Norm(ISum(yData), n)
              predicted(i) == RAdd(c0, RAdd(RMul(c1, R(xData[i])),
                                            RMul(c2, R(xData[i] * xData[i]))))
              ssTotal == RSum([i \in 1..n |-> RSq(RSub(R(yData[i]), yMean))])
              ssRes == RSum([i \in 1..n |-> RSq(RSub(R(yData[i]), predicted(i)))])
              rSquared == IF ssTotal # R(0)
                          THEN RMax(R(0), RSub(R(1), RDiv(ssRes, ssTotal)))
                          ELSE R(0)
          IN [coefficients |-> <<c0, c1, c2>>, rSquared |-> rSquared]

(* Model selection and trend, as in both setRegressionModel calls.         *)
(* slope thresholds 0.01 and -0.01 are 1 and -1 cent per index.            *)

\* variant: any improvement selects the polynomial
SelectionMarginNone == <<0, 1>>

SelectionMargin == <<1, 10>>

\* variant: any positive or negative slope is a trend
TrendOfAnySlope(type, slope) ==
    IF type = "linear"
    THEN (IF RLt(R(0), slope) THEN "upward"
          ELSE IF RLt(slope, R(0)) THEN "downward" ELSE "stable")
    ELSE "complex"

TrendOf(type, slope) ==
    IF type = "linear"
    THEN (IF RLt(R(TrendEpsilon), slope) THEN "upward"
          ELSE IF RLt(slope, R(-TrendEpsilon)) THEN "downward" ELSE "stable")
    ELSE "complex"

SelectedModel(yData) ==
    LET xData == Indices(Len(yData))
        linearModel == computeLinearRegression(xData, yData)
        polyModel == IF Len(yData) >= MinPolyPoints
                     THEN computePolynomialRegression(xData, yData)
                     ELSE [coefficients |-> <<linearModel.intercept, linearModel.slope, R(0)>>,
                           rSquared |-> linearModel.rSquared]
        type == IF RLt(RAdd(linearModel.rSquared, SelectionMargin), polyModel.rSquared)
                THEN "polynomial" ELSE "linear"
    IN [type |-> type,
        slope |-> linearModel.slope,
        intercept |-> linearModel.intercept,
        coefficients |-> polyModel.coefficients,
        rSquared |-> IF type = "linear" THEN linearModel.rSquared ELSE polyModel.rSquared,
        trend |-> TrendOf(type, linearModel.slope)]

----------------------------------------------------------------------------
(* generateInitialSyntheticData: 20 samples, 2 minutes apart, ending now,  *)
(* each price Math.max(20, ...).  The random multiplier of the even        *)
(* indices is drawn from SyntheticMults, the odd indices keep the base.    *)

generateInitialSyntheticData(base, t, m) ==
    [j \in 1..SyntheticCount |->
        LET i == SyntheticCount - j
        IN Sample(Max(SyntheticFloor, Percent(base, IF i % 2 = 0 THEN m ELSE 100)),
                  t - i * SyntheticSpacing)]

----------------------------------------------------------------------------
(* First price-history effect (deps [currentPrice]): no time check,        *)
(* no refit.                                                               *)

IsDuplicatePrice(prev, p) ==
    Len(prev) > 0 /\ Abs(prev[Len(prev)].price - p) < DupEpsilon

RecordFirst(prev, p, t) ==
    IF IsDuplicatePrice(prev, p)
    THEN prev
    ELSE LET updated == Append(prev, Sample(p, t))
         IN IF Len(updated) > WindowCap THEN SliceLast(updated, WindowCap) ELSE updated

(* Second price-history effect (deps [currentPrice, timestamp]):           *)
(* duplicate check on price and time, slice(-50), refit at >= 3 samples.   *)

\* variant: the second effect never skips
IsDuplicateNever(prev, p, t) == FALSE

\* variant: the second effect skips an equal price whatever its age
IsDuplicateAnyAge(prev, p, t) ==
    /\ Len(prev) > 0
    /\ Abs(prev[Len(prev)].price - p) < DupEpsilon

IsDuplicate(prev, p, t) ==
    /\ Len(prev) > 0
    /\ Abs(prev[Len(prev)].price - p) < DupEpsilon
    /\ t - prev[Len(prev)].timestamp < DupWindow

\* variant: the second effect appends without a duplicate check
RecordHistoryAlways(prev, p, t) == SliceLast(Append(prev, Sample(p, t)), WindowCap)

RecordHistory(prev, p, t) ==
    IF IsDuplicate(prev, p, t)
    THEN prev
    ELSE SliceLast(Append(prev, Sample(p, t)), WindowCap)

RecordModel(prev, model, p, t) ==
    IF IsDuplicate(prev, p, t)
    THEN model
    ELSE LET newHistory == RecordHistory(prev, p, t)
         IN IF Len(newHistory) >= MinFitPoints THEN FitModel(newHistory, t) ELSE model

\* both effects in source order; the first runs only when the price changed
\* variant: a zero price passes the guard
PriceGuardNonNegative(p) == p >= 0

PriceGuard(p) == p > 0

AfterFirst(prev, p, t, priceChanged) ==
    IF priceChanged /\ PriceGuard(p) THEN RecordFirst(prev, p, t) ELSE prev

AfterEffectsHistory(prev, p, t, priceChanged) ==
    IF PriceGuard(p)
    THEN RecordHistory(AfterFirst(prev, p, t, priceChanged), p, t)
    ELSE prev

AfterEffectsModel(prev, model, p, t, priceChanged) ==
    IF PriceGuard(p)
    THEN RecordModel(AfterFirst(prev, p, t, priceChanged), model, p, t)
    ELSE model

\* what the two effects did with the price p
RecordOutcome(prev, p, t, priceChanged) ==
    IF ~PriceGuard(p) THEN "invalid"
    ELSE IF AfterEffectsHistory(prev, p, t, priceChanged) = prev THEN "duplicate"
    ELSE "admitted"

----------------------------------------------------------------------------
(* predictPriceWithRegression(hoursAhead).  The two Math.random() draws    *)
(* are parameters: r is the draw of the time-of-day multiplier, z is the   *)
(* resulting noise adjustment (Math.random() - 0.5) * volatility * 0.3.    *)
(* volatility is a square root; the model keeps its square (the sample     *)
(* variance of the last 10 prices) and admits exactly the z with           *)
(* -0.15 * volatility <= z < 0.15 * volatility (z = 0 when it is 0).       *)

FallbackConfidence == 30
ConfidenceCap == 95
ConfidenceFloor == 25
ConfidenceDecay == 5
PeakBonus == 5
NightBonus == 3
PriceFloor == 1000
VolatilityWindow == 10
HoursPerDay == 24

\* variant: the evening peak of the synthetic data, 17 to 21
IsPeakHourEvening17(h) == (h >= 8 /\ h <= 12) \/ (h >= 17 /\ h <= 21)

IsPeakHour(h) == (h >= 8 /\ h <= 12) \/ (h >= 18 /\ h <= 22)
IsNightHour(h) == h >= 23 \/ h <= 6

\* 1.05 + r * 0.05
PeakFactor(r) == RAdd(<<105, 100>>, RMul(r, <<5, 100>>))
\* 0.92 - r * 0.05
NightFactor(r) == RSub(<<92, 100>>, RMul(r, <<5, 100>>))

Variance(hist) ==
    LET recentPrices == Prices(SliceLast(hist, VolatilityWindow))
        m == Len(recentPrices)
        mean == Norm(ISum(recentPrices), m)
    IN IF m > 1
       THEN RDiv(RSum([i \in 1..m |-> RSq(RSub(R(recentPrices[i]), mean))]), R(m - 1))
       ELSE R(0)

\* variant: the noise factor is 0.6 instead of 0.3
NoiseAllowedDouble(z, variance) ==
    LET bound == RMul(<<9, 100>>, variance)
    IN IF z = R(0) THEN TRUE
       ELSE IF RLt(z, R(0)) THEN RLe(RSq(z), bound) ELSE RLt(RSq(z), bound)

NoiseAllowed(z, variance) ==
    LET bound == RMul(<<225, 10000>>, variance)
    IN IF z = R(0) THEN TRUE
       ELSE IF RLt(z, R(0)) THEN RLe(RSq(z), bound) ELSE RLt(RSq(z), bound)

\* variant: the peak bonus exceeds one hour of decay
TimeOfDayBonusDouble(h) ==
    IF IsPeakHour(h) THEN 2 * PeakBonus ELSE IF IsNightHour(h) THEN NightBonus ELSE 0

TimeOfDayBonus(h) == IF IsPeakHour(h) THEN PeakBonus ELSE IF IsNightHour(h) THEN NightBonus ELSE 0

\* variant: the base confidence is not capped at 95
ConfidenceUncapped(rSquared, hour, hoursAhead) ==
    LET base == RMul(rSquared, R(100))
        adjusted == RAdd(base, R(TimeOfDayBonus((hour + hoursAhead) % HoursPerDay)))
    IN RMax(R(ConfidenceFloor), RSub(adjusted, R(hoursAhead * ConfidenceDecay)))

\* Math.max(25, Math.min(95, rSquared * 100) + bonus - hoursAhead * 5)
Confidence(rSquared, hour, hoursAhead) ==
    LET base == RMin(R(ConfidenceCap), RMul(rSquared, R(100)))
        adjusted == RAdd(base, R(TimeOfDayBonus((hour + hoursAhead) % HoursPerDay)))
    IN RMax(R(ConfidenceFloor), RSub(adjusted, R(hoursAhead * ConfidenceDecay)))

UsesFallback(hist, model) == ~model.fitted \/ Len(hist) < MinFitPoints

\* variant: the fallback confidence decays with the horizon
FallbackPredictionDecayed(cur, hour, hoursAhead) ==
    [made |-> TRUE, hour |-> hour, hoursAhead |-> hoursAhead,
     predictedPrice |-> R(BasePrice(cur)),
     confidence |-> RMax(R(ConfidenceFloor),
                         R(FallbackConfidence - hoursAhead * ConfidenceDecay)),
     method |-> "fallback",
     rSquared |-> R(0), trend |-> "undefined"]

FallbackPrediction(cur, hour, hoursAhead) ==
    [made |-> TRUE, hour |-> hour, hoursAhead |-> hoursAhead,
     predictedPrice |-> R(BasePrice(cur)),
     confidence |-> R(FallbackConfidence),
     method |-> "fallback",
     rSquared |-> R(0), trend |-> "undefined"]

\* fit is the fitted fields of model: SelectedModel(model.yData)
predictPriceWithRegression(hist, model, fit, cur, hour, hoursAhead, r, z) ==
    IF UsesFallback(hist, model)
    THEN FallbackPrediction(cur, hour, hoursAhead)
    ELSE
    LET currentIndex == Len(hist) - 1
        futureIndex == currentIndex + hoursAhead
        raw == IF fit.type = "linear"
               THEN RAdd(RMul(fit.slope, R(futureIndex)), fit.intercept)
               ELSE RAdd(fit.coefficients[1],
                         RAdd(RMul(fit.coefficients[2], R(futureIndex)),
                              RMul(fit.coefficients[3], R(futureIndex * futureIndex))))
        targetHour == (hour + hoursAhead) % HoursPerDay
        timed == IF IsPeakHour(targetHour) THEN RMul(raw, PeakFactor(r))
                 ELSE IF IsNightHour(targetHour) THEN RMul(raw, NightFactor(r))
                 ELSE raw
        noisy == RAdd(timed, z)
    IN [made |-> TRUE, hour |-> hour, hoursAhead |-> hoursAhead,
        predictedPrice |-> RMax(R(PriceFloor), noisy),
        confidence |-> Confidence(fit.rSquared, hour, hoursAhead),
        method |-> fit.type,
        rSquared |-> fit.rSquared, trend |-> fit.trend]

----------------------------------------------------------------------------
(* State after construction: the first render, before the mount effects.   *)

NoPrediction == [made |-> FALSE]

(* App: the state of the day-ahead bids after construction.  Prices and    *)
(* cash are in cents, quantities in MWh.                                   *)
InitialCash == 1000000
InitialPrice == 4567
InitialQuantity == 100

LocalHours == {10, 11, 12}

InitialReconnectInterval == 1000

\* BidSuggestions: the suggestion state after construction
SuggestStateInit ==
    /\ analysisMode = "moderate"
    /\ suggestionType = "both"
    /\ suggestions = {}
    /\ allSuggestions = {}
    /\ suggestionsMounted = FALSE

\* WebSocketService after construction
SocketStateInit ==
    /\ sockets = <<>>
    /\ ws = 0
    /\ isConnecting = FALSE
    /\ reconnectAttempts = 0
    /\ reconnectInterval = InitialReconnectInterval
    /\ timers = 0
    /\ scheduledSinceOpen = 0
    /\ stayDisconnected = FALSE

\* h is the local hour at construction
BidStateInit(h) ==
    /\ dayAheadBids = <<>>
    /\ portfolio = [cashBalance |-> InitialCash, positions |-> <<>>]
    /\ localHour = h
    /\ bidForm = [hour |-> h, action |-> "buy", price |-> InitialPrice,
                  quantity |-> InitialQuantity]
    /\ submissions = {}
    /\ alertShown = "none"
    /\ submitted = 0
    /\ persistedLoaded = FALSE

Init ==
    /\ priceHistory = <<>>
    /\ regressionModel = NoModel
    /\ suggestionsActive = TRUE
    /\ currentPrice \in MarketPrices
    /\ now = 0
    /\ mounted = FALSE
    /\ appended = 0
    /\ lastRecord = "none"
    /\ prediction = NoPrediction
    /\ BidStateInit(10)
    /\ SuggestStateInit
    /\ SocketStateInit

(* Mount: the bootstrap effect replaces the window by the synthetic data   *)
(* and fits the model, then both price-history effects run on it.          *)
Mount ==
    /\ ~mounted
    /\ \E m \in SyntheticMults :
         LET syn == generateInitialSyntheticData(BasePrice(currentPrice), now, m)
             boot == IF Len(syn) >= MinFitPoints THEN FitModel(syn, now) ELSE regressionModel
             hist == AfterEffectsHistory(syn, currentPrice, now, TRUE)
         IN /\ priceHistory' = hist
            /\ regressionModel' = AfterEffectsModel(syn, boot, currentPrice, now, TRUE)
            /\ appended' = Len(hist) - Len(syn)
            /\ lastRecord' = "none"
    /\ mounted' = TRUE
    /\ UNCHANGED <<suggestionsActive, currentPrice, now, prediction>>
    /\ UNCHANGED <<bidVars, suggestVars, socketVars>>

(* A new marketData arrives: the effects whose dependencies changed run.   *)
MarketUpdate(p) ==
    /\ mounted
    /\ appended < MaxAppended
    /\ LET hist == AfterEffectsHistory(priceHistory, p, now, p # currentPrice)
       IN /\ priceHistory' = hist
          /\ regressionModel' =
                AfterEffectsModel(priceHistory, regressionModel, p, now, p # currentPrice)
          /\ appended' = IF hist = priceHistory THEN appended ELSE appended + 1
          /\ lastRecord' = RecordOutcome(priceHistory, p, now, p # currentPrice)
    /\ currentPrice' = p
    /\ UNCHANGED <<suggestionsActive, now, mounted, prediction>>
    /\ UNCHANGED <<bidVars, suggestVars, socketVars>>

(* The 30-second interval: a simulated sample after 45 idle seconds.       *)
LastTimestamp(hist) == IF Len(hist) > 0 THEN hist[Len(hist)].timestamp ELSE 0

SimulatedTick ==
    /\ mounted
    /\ appended < MaxAppended
    /\ now - LastTimestamp(priceHistory) > TickIdle
    /\ suggestionsActive
    /\ \E v \in Variation :
         priceHistory' =
            SliceLast(Append(priceHistory, Sample(Percent(BasePrice(currentPrice), v), now)),
                      WindowCap)
    /\ appended' = appended + 1
    /\ UNCHANGED <<regressionModel, suggestionsActive, currentPrice, now, mounted,
                   lastRecord, prediction>>
    /\ UNCHANGED <<bidVars, suggestVars, socketVars>>

(* 'Add Sample Data Point': the button is rendered only while no model is  *)
(* fitted or the window holds fewer than 3 samples.                        *)
ManualAddShown == ~regressionModel.fitted \/ Len(priceHistory) < MinFitPoints

ManualAdd ==
    /\ ManualAddShown
    /\ Len(priceHistory) < MaxManual
    /\ \E v \in Variation :
         priceHistory' =
            SliceLast(Append(priceHistory, Sample(Percent(BasePrice(currentPrice), v), now)),
                      WindowCap)
    /\ UNCHANGED <<regressionModel, suggestionsActive, currentPrice, now, mounted,
                   appended, lastRecord, prediction>>
    /\ UNCHANGED <<bidVars, suggestVars, socketVars>>

ToggleActive ==
    /\ mounted \/ suggestionsMounted
    /\ suggestionsActive' = ~suggestionsActive
    /\ UNCHANGED <<priceHistory, regressionModel, currentPrice, now, mounted,
                   appended, lastRecord, prediction>>
    /\ UNCHANGED <<bidVars, suggestVars, socketVars>>

Advance ==
    /\ mounted
    /\ \E t \in Instants : t > now /\ now' = t
    /\ UNCHANGED <<priceHistory, regressionModel, suggestionsActive, currentPrice,
                   mounted, appended, lastRecord, prediction>>
    /\ UNCHANGED <<bidVars, suggestVars, socketVars>>

Next ==
    \/ Mount
    \/ \E p \in MarketPrices : MarketUpdate(p)
    \/ SimulatedTick
    \/ ManualAdd
    \/ ToggleActive
    \/ Advance

Spec == Init /\ [][Next]_vars

----------------------------------------------------------------------------
(* The predictor as a function of the component state: the inputs are      *)
(* drawn from bounded sets and predictPriceWithRegression is applied.      *)
(* The model is null or the fit of a prefix of the window (the window      *)
(* grows without a refit on the first effect, the tick and the manual      *)
(* add).                                                                   *)

MaxLen == 5
MaxSteps == 2
MaxStale == 1

WindowPrices == {1000, 1002, 1004}
FallbackPrices == {0, 500}
Hours == {6, 7, 12, 22}
Draws == {<<0, 1>>, <<1, 2>>}
Noises == {<<-60, 1>>, <<-40, 1>>, <<-1, 10>>, <<0, 1>>, <<1, 10>>, <<40, 1>>, <<60, 1>>}

RECURSIVE Windows(_)
Windows(n) ==
    IF n = 0 THEN {<<>>}
    ELSE LET shorter == Windows(n - 1)
         IN shorter \cup {Append(w, Sample(p, 0)) : w \in {v \in shorter : Len(v) = n - 1},
                                                    p \in WindowPrices}

\* windows with a shape: exact lines (the 40, 42, .. 48 of the specification's
\* example among them) and a convex rise
ShapedPrices ==
    {<<4000, 4200, 4400>>,
     <<4000, 4200, 4400, 4600, 4800>>,
     <<4800, 4600, 4400, 4200, 4000>>,
     <<4000, 4000, 4000, 4000, 4800>>}

ShapedWindows == {[i \in 1..Len(y) |-> Sample(y[i], 0)] : y \in ShapedPrices}

PredictInit ==
    /\ priceHistory \in Windows(MaxLen) \cup ShapedWindows
    /\ \/ regressionModel = NoModel
       \/ \E n \in Max(MinFitPoints, Len(priceHistory) - MaxStale)..Len(priceHistory) :
            regressionModel = FitModel(SubSeq(priceHistory, 1, n), 0)
    /\ suggestionsActive = TRUE
    /\ currentPrice \in FallbackPrices
    /\ now = 0
    /\ mounted = TRUE
    /\ appended = 0
    /\ lastRecord = "none"
    /\ prediction = NoPrediction
    /\ BidStateInit(10)
    /\ SuggestStateInit
    /\ SocketStateInit

\* every value predictPriceWithRegression can return in the given state
PredictionsAt(hist, model, cur, hours, steps) ==
    UNION {{predictPriceWithRegression(hist, model, fit, cur, h, k, r, z) :
                h \in hours, k \in steps, r \in Draws,
                z \in {n \in Noises : NoiseAllowed(n, variance)}} :
           fit \in {SelectedModel(model.yData)}, variance \in {Variance(hist)}}

Predictions(hist, model, cur) == PredictionsAt(hist, model, cur, Hours, 0..MaxSteps)

Predict ==
    /\ ~prediction.made
    /\ prediction' \in Predictions(priceHistory, regressionModel, currentPrice)
    /\ UNCHANGED <<priceHistory, regressionModel, suggestionsActive, currentPrice, now,
                   mounted, appended, lastRecord>>
    /\ UNCHANGED <<bidVars, suggestVars, socketVars>>

PredictNext == Predict

PredictSpec == PredictInit /\ [][PredictNext]_vars

----------------------------------------------------------------------------
(* Day-ahead bids (App.tsx).  submitBid is asynchronous: its checks read   *)
(* the state of the render that created the handler, it then awaits the    *)
(* backend, appends the bid, and resolves it from a 3-second timer that    *)
(* awaits the backend again before each state update.                      *)

MaxBids == 10
ClosingHour == 11
CashDefault == 1000000

MaxSubmits == 2

FormActions == {"buy", "sell"}
FormPrices == {5000}
FormQuantities == {200}

\* what a previous session left in the backend: nothing, or nine settled
\* bids and a spent balance
PersistedData ==
    {[cashBalance |-> InitialCash, positions |-> <<>>, dayAheadBids |-> <<>>],
     [cashBalance |-> 0, positions |-> <<>>,
      dayAheadBids |->
         [i \in 1..9 |-> [id |-> i, hour |-> 12, action |-> "sell", price |-> InitialPrice,
                          quantity |-> InitialQuantity, status |-> "rejected"]]]}

\* variant: bids are still taken during the hour of 11
isBiddingAllowedThrough11(hour) == hour <= ClosingHour

isBiddingAllowed(hour) == hour < ClosingHour

\* portfolio.cashBalance || 10000
CashOr(cash) == IF cash # 0 THEN cash ELSE CashDefault

TotalCost(form) == form.price * form.quantity

\* the alert of submitBid, "none" when every check passes
SubmitRefusal(hour, bids, form, cash) ==
    IF ~isBiddingAllowed(hour) THEN "closed"
    ELSE IF Len(bids) >= MaxBids THEN "full"
    ELSE IF form.action = "buy" /\ TotalCost(form) > CashOr(cash) THEN "insufficient"
    ELSE "none"

\* submitBid up to its first await
submitBid ==
    /\ submitted < MaxSubmits
    /\ LET refusal == SubmitRefusal(localHour, dayAheadBids, bidForm, portfolio.cashBalance)
       IN IF refusal # "none"
          THEN /\ alertShown' = refusal
               /\ UNCHANGED <<submissions, submitted>>
          ELSE /\ submissions' = submissions \cup
                                    {[id |-> 100 + submitted, form |-> bidForm,
                                      stage |-> "posting", isExecuted |-> FALSE]}
               /\ submitted' = submitted + 1
               /\ UNCHANGED alertShown
    /\ UNCHANGED <<dayAheadBids, portfolio, bidForm, localHour, persistedLoaded>>
    /\ UNCHANGED <<predictorVars, suggestVars, socketVars>>

\* the POST of the bid has returned: the bid is appended, the timer is
\* started and the form moves to the next hour
BidPosted(c) ==
    /\ c.stage = "posting"
    /\ dayAheadBids' = Append(dayAheadBids,
                              [id |-> c.id, hour |-> c.form.hour, action |-> c.form.action,
                               price |-> c.form.price, quantity |-> c.form.quantity,
                               status |-> "pending"])
    /\ bidForm' = [bidForm EXCEPT !.hour = (@ + 1) % HoursPerDay]
    /\ submissions' = (submissions \ {c}) \cup {[c EXCEPT !.stage = "timer"]}
    /\ UNCHANGED <<portfolio, localHour, alertShown, submitted, persistedLoaded>>
    /\ UNCHANGED <<predictorVars, suggestVars, socketVars>>

\* the timer fires: Math.random() < executionChance decides the outcome
TimerFires(c) ==
    /\ c.stage = "timer"
    /\ \E isExecuted \in BOOLEAN :
         submissions' = (submissions \ {c}) \cup
                           {[c EXCEPT !.stage = "updating", !.isExecuted = isExecuted]}
    /\ UNCHANGED <<dayAheadBids, portfolio, bidForm, localHour, alertShown, submitted,
                   persistedLoaded>>
    /\ UNCHANGED <<predictorVars, suggestVars, socketVars>>

\* variant: only the first bid of the list is looked at
SetStatusFirst(bids, id, status) ==
    [i \in 1..Len(bids) |-> IF i = 1 /\ bids[i].id = id THEN [bids[i] EXCEPT !.status = status]
                            ELSE bids[i]]

SetStatus(bids, id, status) ==
    [i \in 1..Len(bids) |-> IF bids[i].id = id THEN [bids[i] EXCEPT !.status = status]
                            ELSE bids[i]]

\* the PUT of the status has returned
StatusUpdated(c) ==
    /\ c.stage = "updating"
    /\ dayAheadBids' = SetStatus(dayAheadBids, c.id,
                                 IF c.isExecuted THEN "executed" ELSE "rejected")
    /\ submissions' = IF c.isExecuted
                      THEN (submissions \ {c}) \cup {[c EXCEPT !.stage = "positioning"]}
                      ELSE submissions \ {c}
    /\ UNCHANGED <<portfolio, bidForm, localHour, alertShown, submitted, persistedLoaded>>
    /\ UNCHANGED <<predictorVars, suggestVars, socketVars>>

\* an executed bid enters the portfolio: the cash moves by the total cost
\* and a position is added; bid names the bid the position comes from
Executed(prev, bid) ==
    [cashBalance |-> IF bid.action = "buy"
                     THEN CashOr(prev.cashBalance) - bid.price * bid.quantity
                     ELSE CashOr(prev.cashBalance) + bid.price * bid.quantity,
     positions |-> Append(prev.positions,
                          [bid |-> bid.id, hour |-> bid.hour,
                           quantity |-> IF bid.action = "buy"
                                        THEN bid.quantity ELSE -bid.quantity,
                           dayAheadPrice |-> bid.price])]

\* the POST of the position has returned
PositionAdded(c) ==
    /\ c.stage = "positioning"
    /\ portfolio' = Executed(portfolio,
                             [id |-> c.id, hour |-> c.form.hour, action |-> c.form.action,
                              price |-> c.form.price, quantity |-> c.form.quantity])
    /\ submissions' = submissions \ {c}
    /\ UNCHANGED <<dayAheadBids, bidForm, localHour, alertShown, submitted, persistedLoaded>>
    /\ UNCHANGED <<predictorVars, suggestVars, socketVars>>

PendingBids(bids) == SelectSeq(bids, LAMBDA bid : bid.status = "pending")

RECURSIVE ExecutedAll(_, _)
ExecutedAll(prev, pending) ==
    IF pending = <<>> THEN prev
    ELSE ExecutedAll(Executed(prev, Head(pending)), Tail(pending))

RECURSIVE SetStatusAll(_, _)
SetStatusAll(bids, pending) ==
    IF pending = <<>> THEN bids
    ELSE SetStatusAll(SetStatus(bids, Head(pending).id, "executed"), Tail(pending))

\* forceExecutePendingBids: the button is rendered while a bid is pending
forceExecutePendingBids ==
    /\ PendingBids(dayAheadBids) # <<>>
    /\ dayAheadBids' = SetStatusAll(dayAheadBids, PendingBids(dayAheadBids))
    /\ portfolio' = ExecutedAll(portfolio, PendingBids(dayAheadBids))
    /\ UNCHANGED <<bidForm, localHour, submissions, alertShown, submitted, persistedLoaded>>
    /\ UNCHANGED <<predictorVars, suggestVars, socketVars>>

\* loadPersistedData: the mount effect's fetch has returned
loadPersistedData ==
    /\ ~persistedLoaded
    /\ \E saved \in PersistedData :
         /\ portfolio' = [cashBalance |-> CashOr(saved.cashBalance),
                          positions |-> saved.positions]
         /\ dayAheadBids' = saved.dayAheadBids
    /\ persistedLoaded' = TRUE
    /\ UNCHANGED <<bidForm, localHour, submissions, alertShown, submitted>>
    /\ UNCHANGED <<predictorVars, suggestVars, socketVars>>

\* the action, price and quantity inputs of the bid form
EditBidForm ==
    /\ \E a \in FormActions, p \in FormPrices, q \in FormQuantities :
         /\ bidForm' = [bidForm EXCEPT !.action = a, !.price = p, !.quantity = q]
         /\ bidForm' # bidForm
    /\ UNCHANGED <<dayAheadBids, portfolio, localHour, submissions, alertShown, submitted,
                   persistedLoaded>>
    /\ UNCHANGED <<predictorVars, suggestVars, socketVars>>

HourPasses ==
    /\ \E h \in LocalHours : h > localHour /\ localHour' = h
    /\ UNCHANGED <<dayAheadBids, portfolio, bidForm, submissions, alertShown, submitted,
                   persistedLoaded>>
    /\ UNCHANGED <<predictorVars, suggestVars, socketVars>>

BidInit ==
    /\ priceHistory = <<>>
    /\ regressionModel = NoModel
    /\ suggestionsActive = TRUE
    /\ currentPrice = InitialPrice
    /\ now = 0
    /\ mounted = FALSE
    /\ appended = 0
    /\ lastRecord = "none"
    /\ prediction = NoPrediction
    /\ \E h \in LocalHours : BidStateInit(h)
    /\ SuggestStateInit
    /\ SocketStateInit

BidNext ==
    \/ submitBid
    \/ \E c \in submissions : BidPosted(c)
    \/ \E c \in submissions : TimerFires(c)
    \/ \E c \in submissions : StatusUpdated(c)
    \/ \E c \in submissions : PositionAdded(c)
    \/ forceExecutePendingBids
    \/ loadPersistedData
    \/ EditBidForm
    \/ HourPasses

BidSpec == BidInit /\ [][BidNext]_vars

\* a started timer fires, and a fetch that was started settles (it
\* resolves or it throws into the catch block)
BidLiveSpec ==
    /\ BidSpec
    /\ WF_vars(\E c \in submissions : TimerFires(c))
    /\ WF_vars(\E c \in submissions : StatusUpdated(c))

----------------------------------------------------------------------------
(* Suggestions of the BidSuggestions component (Portfolio.tsx 482-797, and *)
(* the same code in BidSuggestions.jsx 49-288).  A suggestion is           *)
(* represented by its analysisMode, its action, the branch of              *)
(* generateSuggestions that made it and its index there; prices, volumes   *)
(* and confidences, and with them the order of the list, are left out.     *)
(* The actions are the suggestion effects of a commit; the price-history   *)
(* effects of the same commits are those of Mount and MarketUpdate.        *)

GenerationHours == 8
ForcedMinimum == 3

AnalysisModes == {"conservative", "moderate", "aggressive"}
SuggestionTypes == {"buy", "sell", "both"}
SuggestionActions == {"buy", "sell"}

Suggestion(mode, action, origin, i) ==
    [analysisMode |-> mode, action |-> action, origin |-> origin, slot |-> i]

OfModeAndAction(all, mode, action) ==
    {x \in all : x.analysisMode = mode /\ x.action = action}

\* which of the next 8 hours get a buy or a sell suggestion: buyTrigger and
\* sellTrigger follow the trend of the prediction (buys only when downward,
\* sells only when upward, neither when complex, a draw for each when
\* stable; BidSuggestions.jsx sets both for every hour); the patterns kept
\* are none, a sparse draw with fewer than three of either action, and all
TriggerPatterns ==
    {{},
     {<<"buy", 0>>, <<"sell", 0>>, <<"sell", 1>>},
     {<<action, i>> : action \in SuggestionActions, i \in 0..(GenerationHours - 1)}}

\* the suggestions of the hourly loop, triggers[mode] being the pattern of
\* the mode
HourlySuggestions(triggers) ==
    UNION {{Suggestion(mode, t[1], "hourly", t[2]) : t \in triggers[mode]} :
           mode \in AnalysisModes}

\* one buy and one sell for a mode that has none
WithGuaranteed(all) ==
    all \cup {x \in {Suggestion(mode, action, "guaranteed", 0) :
                        mode \in AnalysisModes, action \in SuggestionActions} :
                 OfModeAndAction(all, x.analysisMode, x.action) = {}}

\* a sell in the current mode for every position of the portfolio
PortfolioSuggestions(mode, positions) ==
    {Suggestion(mode, "sell", "portfolio", j) : j \in 1..Len(positions)}

\* up to 3 buys and 3 sells for every mode
WithForced(all) ==
    all \cup UNION {{Suggestion(mode, action, "forced", i) :
                        i \in Cardinality(OfModeAndAction(all, mode, action))
                                 ..(ForcedMinimum - 1)} :
                    mode \in AnalysisModes, action \in SuggestionActions}

WithEmergency(all) ==
    IF all = {}
    THEN {Suggestion(mode, action, "emergency", 0) :
             mode \in AnalysisModes, action \in SuggestionActions}
    ELSE all

\* allSuggestions of generateSuggestions, before the filtering
Generated(hourly, mode, positions) ==
    WithEmergency(WithForced(WithGuaranteed(hourly)
                                \cup PortfolioSuggestions(mode, positions)))

TypePermits(type, action) == type = "both" \/ type = action

FilterByType(list, type) == {x \in list : TypePermits(type, x.action)}

FilterByMode(list, mode) == {x \in list : x.analysisMode = mode}

\* generateSuggestions called from a render with the given mode and type
generateSuggestions(mode, type) ==
    IF ~suggestionsActive
    THEN UNCHANGED <<suggestions, allSuggestions>>
    ELSE \E triggers \in [AnalysisModes -> TriggerPatterns] :
         \E all \in {Generated(HourlySuggestions(triggers), mode, portfolio.positions)} :
            /\ allSuggestions' = all
            /\ suggestions' = FilterByType(FilterByMode(all, mode), type)

\* the effects of the first commit: generation on mount, the type filter,
\* generation for the mode, the interval, generation for the market price
MountSuggestions ==
    /\ ~suggestionsMounted
    /\ suggestionsMounted' = TRUE
    /\ generateSuggestions(analysisMode, suggestionType)
    /\ UNCHANGED <<analysisMode, suggestionType>>
    /\ UNCHANGED <<predictorVars, bidVars, socketVars>>

\* a mode button is clicked: the mode effect regenerates
SetAnalysisMode(mode) ==
    /\ suggestionsMounted
    /\ mode # analysisMode
    /\ analysisMode' = mode
    /\ generateSuggestions(mode, suggestionType)
    /\ UNCHANGED <<suggestionType, suggestionsMounted>>
    /\ UNCHANGED <<predictorVars, bidVars, socketVars>>

\* a type button is clicked: the type effect filters the displayed list
SetSuggestionType(type) ==
    /\ suggestionsMounted
    /\ type # suggestionType
    /\ suggestionType' = type
    /\ suggestions' = FilterByType(suggestions, type)
    /\ UNCHANGED <<analysisMode, allSuggestions, suggestionsMounted>>
    /\ UNCHANGED <<predictorVars, bidVars, socketVars>>

\* the 1-minute interval, which exists while the suggestions are active
RefreshTick ==
    /\ suggestionsMounted
    /\ suggestionsActive
    /\ generateSuggestions(analysisMode, suggestionType)
    /\ UNCHANGED <<analysisMode, suggestionType, suggestionsMounted>>
    /\ UNCHANGED <<predictorVars, bidVars, socketVars>>

\* marketData.currentPrice changes: the market effect regenerates an empty
\* list
PriceChanged(p) ==
    /\ suggestionsMounted
    /\ p # currentPrice
    /\ currentPrice' = p
    /\ IF suggestionsActive /\ p # 0 /\ suggestions = {}
       THEN generateSuggestions(analysisMode, suggestionType)
       ELSE UNCHANGED <<suggestions, allSuggestions>>
    /\ UNCHANGED <<analysisMode, suggestionType, suggestionsMounted>>
    /\ UNCHANGED <<priceHistory, regressionModel, suggestionsActive, now, mounted,
                   appended, lastRecord, prediction>>
    /\ UNCHANGED <<bidVars, socketVars>>

SuggestInit ==
    /\ priceHistory = <<>>
    /\ regressionModel = NoModel
    /\ suggestionsActive = TRUE
    /\ currentPrice = InitialPrice
    /\ now = 0
    /\ mounted = FALSE
    /\ appended = 0
    /\ lastRecord = "none"
    /\ prediction = NoPrediction
    /\ BidStateInit(10)
    /\ SuggestStateInit
    /\ SocketStateInit

SuggestNext ==
    \/ MountSuggestions
    \/ \E mode \in AnalysisModes : SetAnalysisMode(mode)
    \/ \E type \in SuggestionTypes : SetSuggestionType(type)
    \/ ToggleActive
    \/ RefreshTick
    \/ \E p \in MarketPrices : PriceChanged(p)

SuggestSpec == SuggestInit /\ [][SuggestNext]_vars

----------------------------------------------------------------------------
(* WebSocketService (services/websocket.ts).  A socket is "connecting",    *)
(* "open", "failed" (error fired, close event pending), "closing" (close() *)
(* called, close event pending) or "closed" (close event delivered).       *)

maxReconnectAttempts == 5

MaxReconnectInterval == 30000

MaxSockets == 7

Min2(a, b) == IF a <= b THEN a ELSE b

CanReconnectInclusive(attempts) == attempts <= maxReconnectAttempts

\* the test of scheduleReconnect
CanReconnect(attempts) == attempts < maxReconnectAttempts

\* the body of connect(): nothing when the current socket is open or a
\* connection is being made, else a new socket replaces this.ws
connect ==
    IF (ws # 0 /\ sockets[ws] = "open") \/ isConnecting
    THEN UNCHANGED <<sockets, ws, isConnecting>>
    ELSE /\ Len(sockets) < MaxSockets
         /\ isConnecting' = TRUE
         /\ sockets' = Append(sockets, "connecting")
         /\ ws' = Len(sockets) + 1

\* scheduleReconnect() called from the close handler
scheduleReconnect ==
    IF CanReconnect(reconnectAttempts)
    THEN /\ reconnectAttempts' = reconnectAttempts + 1
         /\ timers' = timers + 1
         /\ scheduledSinceOpen' = scheduledSinceOpen + 1
         /\ reconnectInterval' = Min2(reconnectInterval * 2, MaxReconnectInterval)
    ELSE UNCHANGED <<reconnectAttempts, timers, scheduledSinceOpen, reconnectInterval>>

\* connect() called by the application
Connect ==
    /\ connect
    /\ stayDisconnected' = FALSE
    /\ UNCHANGED <<reconnectAttempts, reconnectInterval, timers, scheduledSinceOpen>>
    /\ UNCHANGED <<predictorVars, bidVars, suggestVars>>

\* the callback of a reconnect timer
ReconnectTimerFires ==
    /\ timers > 0
    /\ timers' = timers - 1
    /\ connect
    /\ UNCHANGED <<reconnectAttempts, reconnectInterval, scheduledSinceOpen,
                   stayDisconnected>>
    /\ UNCHANGED <<predictorVars, bidVars, suggestVars>>

\* socket s opens
onopen(s) ==
    /\ sockets[s] = "connecting"
    /\ sockets' = [sockets EXCEPT ![s] = "open"]
    /\ isConnecting' = FALSE
    /\ reconnectAttempts' = 0
    /\ scheduledSinceOpen' = 0
    /\ UNCHANGED <<ws, reconnectInterval, timers, stayDisconnected>>
    /\ UNCHANGED <<predictorVars, bidVars, suggestVars>>

\* socket s reports an error; its close event follows
onerror(s) ==
    /\ sockets[s] \in {"connecting", "open"}
    /\ sockets' = [sockets EXCEPT ![s] = "failed"]
    /\ isConnecting' = FALSE
    /\ UNCHANGED <<ws, reconnectAttempts, reconnectInterval, timers, scheduledSinceOpen,
                   stayDisconnected>>
    /\ UNCHANGED <<predictorVars, bidVars, suggestVars>>

\* the close event of socket s: after an error, after close(), or when the
\* server ends an open connection
onclose(s) ==
    /\ sockets[s] \in {"open", "failed", "closing"}
    /\ sockets' = [sockets EXCEPT ![s] = "closed"]
    /\ isConnecting' = FALSE
    /\ scheduleReconnect
    /\ UNCHANGED <<ws, stayDisconnected>>
    /\ UNCHANGED <<predictorVars, bidVars, suggestVars>>

\* disconnect() called by the application
disconnect ==
    /\ IF ws # 0
       THEN /\ sockets' = [sockets EXCEPT ![ws] =
                              IF @ \in {"connecting", "open"} THEN "closing" ELSE @]
            /\ ws' = 0
       ELSE UNCHANGED <<sockets, ws>>
    /\ stayDisconnected' = (stayDisconnected \/ (ws # 0 /\ sockets[ws] = "open"))
    /\ UNCHANGED <<isConnecting, reconnectAttempts, reconnectInterval, timers,
                   scheduledSinceOpen>>
    /\ UNCHANGED <<predictorVars, bidVars, suggestVars>>

SocketInit ==
    /\ priceHistory = <<>>
    /\ regressionModel = NoModel
    /\ suggestionsActive = TRUE
    /\ currentPrice = InitialPrice
    /\ now = 0
    /\ mounted = FALSE
    /\ appended = 0
    /\ lastRecord = "none"
    /\ prediction = NoPrediction
    /\ BidStateInit(10)
    /\ SuggestStateInit
    /\ SocketStateInit

SocketNext ==
    \/ Connect
    \/ ReconnectTimerFires
    \/ \E s \in DOMAIN sockets : onopen(s)
    \/ \E s \in DOMAIN sockets : onerror(s)
    \/ \E s \in DOMAIN sockets : onclose(s)
    \/ disconnect

SocketSpec == SocketInit /\ [][SocketNext]_vars

----------------------------------------------------------------------------
(* Properties of the window, checked under Spec.                           *)

Last(hist) == hist[Len(hist)]

\* C1: in every reachable state the window holds between 0 and 50 samples.
C1_WindowBounded ==
    Len(priceHistory) >= 0 /\ Len(priceHistory) <= WindowCap

\* the window is full and a further sample has been appended to it
C1_Witness ==
    /\ mounted
    /\ Len(priceHistory) = WindowCap
    /\ appended > WindowCap - SyntheticCount

\* C2 as stated: after the n-th sample admitted by the price-history effects
\* the window holds min(n, 50) samples.
C2_LengthIsCount ==
    (mounted /\ lastRecord = "admitted") => Len(priceHistory) = Min(appended, WindowCap)

\* C2 amended: the mount loads 20 synthetic samples, so once n samples have
\* been appended after it the window holds min(20 + n, 50) samples.
C2_LengthAfterBootstrap ==
    mounted => Len(priceHistory) = Min(SyntheticCount + appended, WindowCap)

\* the third sample after the mount has just been admitted
C2_Witness ==
    /\ mounted
    /\ lastRecord = "admitted"
    /\ appended = 3
    /\ Len(priceHistory) = SyntheticCount + 3

\* the last sample is less than 30 seconds old and within 0.01 of p
RecentDuplicate(p) ==
    /\ Len(priceHistory) > 0
    /\ Abs(Last(priceHistory).price - p) < DupEpsilon
    /\ now - Last(priceHistory).timestamp < DupWindow

\* C3: a market update whose price is within 0.01 of the last sample, less
\* than 30 seconds after it, leaves the window as it was.
C3_DuplicateSuppressed ==
    [][\A p \in MarketPrices :
          (p > 0 /\ RecentDuplicate(p) /\ MarketUpdate(p))
              => priceHistory' = priceHistory]_vars

\* a positive market update has just been dropped as a duplicate
C3_Witness ==
    /\ mounted
    /\ lastRecord = "duplicate"
    /\ currentPrice > 0
    /\ RecentDuplicate(currentPrice)

\* C4: a positive market update 30 seconds or more after the last sample is
\* appended, as exactly one sample, whatever its price.
C4_AppendedAfterWindow ==
    [][\A p \in MarketPrices :
          (/\ p > 0
           /\ Len(priceHistory) > 0
           /\ now - Last(priceHistory).timestamp >= DupWindow
           /\ MarketUpdate(p))
              => priceHistory' =
                    SliceLast(Append(priceHistory, Sample(p, now)), WindowCap)]_vars

\* the same price admitted twice in a row, 30 seconds apart each time
C4_Witness ==
    /\ mounted
    /\ lastRecord = "admitted"
    /\ Len(priceHistory) >= 3
    /\ LET n == Len(priceHistory)
       IN /\ priceHistory[n].price = priceHistory[n - 1].price
          /\ priceHistory[n - 1].price = priceHistory[n - 2].price
          /\ priceHistory[n].timestamp - priceHistory[n - 1].timestamp = DupWindow
          /\ priceHistory[n - 1].timestamp - priceHistory[n - 2].timestamp = DupWindow

\* C5: a market update with a price of zero or less changes neither the
\* window nor the model.
C5_InvalidPriceIgnored ==
    [][\A p \in MarketPrices :
          (p <= 0 /\ MarketUpdate(p))
              => /\ priceHistory' = priceHistory
                 /\ regressionModel' = regressionModel]_vars

\* a market update with a price of zero or less has just been handled
C5_Witness ==
    /\ mounted
    /\ lastRecord = "invalid"
    /\ currentPrice <= 0
    /\ Len(priceHistory) >= SyntheticCount

----------------------------------------------------------------------------
(* Properties of predictPriceWithRegression, checked under PredictSpec.    *)

\* C6: with fewer than 3 samples in the window every prediction, at every
\* horizon, has method fallback and confidence 30.
C6_ShortWindowFallback ==
    (prediction.made /\ Len(priceHistory) < MinFitPoints)
        => /\ prediction.method = "fallback"
           /\ prediction.confidence = R(30)

\* predict(1) on the empty window with no market price: 45.00, confidence 30
C6_Witness ==
    /\ prediction.made
    /\ priceHistory = <<>>
    /\ currentPrice = 0
    /\ prediction.hoursAhead = 1
    /\ prediction.method = "fallback"
    /\ prediction.predictedPrice = R(DefaultPrice)
    /\ prediction.confidence = R(30)

\* C7 as stated: on the fallback path of a short window the predicted price
\* is the last sample's price, and the default only on the empty window.
C7_FallbackIsLastSample ==
    (prediction.made /\ prediction.method = "fallback" /\ Len(priceHistory) < MinFitPoints)
        => prediction.predictedPrice =
              (IF Len(priceHistory) > 0
               THEN R(Last(priceHistory).price)
               ELSE R(IF currentPrice # 0 THEN currentPrice ELSE DefaultPrice))

\* C7 amended: on the fallback path the predicted price is the current
\* market price, or 45.00 when there is none, whatever the window holds.
C7_FallbackIsMarketPrice ==
    (prediction.made /\ prediction.method = "fallback")
        => prediction.predictedPrice =
              R(IF currentPrice # 0 THEN currentPrice ELSE DefaultPrice)

\* a fallback prediction on a window whose last price is another price
C7_Witness ==
    /\ prediction.made
    /\ prediction.method = "fallback"
    /\ Len(priceHistory) > 0
    /\ Len(priceHistory) < MinFitPoints
    /\ currentPrice = 0
    /\ Last(priceHistory).price # DefaultPrice
    /\ prediction.predictedPrice = R(DefaultPrice)

\* C8: every prediction, the fallback included, has a predicted price of at
\* least 10.00.
C8_PriceFloor ==
    prediction.made => RLe(R(PriceFloor), prediction.predictedPrice)

\* the confidence the call returns at horizon k, the model and hour as they were
ConfidenceAt(k) ==
    IF prediction.method = "fallback"
    THEN FallbackPrediction(currentPrice, prediction.hour, k).confidence
    ELSE Confidence(prediction.rSquared, prediction.hour, k)

\* C9: with the window and the model fixed, the confidence at horizon k + 1
\* is at most the confidence at horizon k, and is never below 25.
C9_ConfidenceNonIncreasing ==
    prediction.made
        => /\ prediction.confidence = ConfidenceAt(prediction.hoursAhead)
           /\ \A k \in 0..MaxSteps :
                /\ RLe(ConfidenceAt(k + 1), ConfidenceAt(k))
                /\ RLe(R(25), ConfidenceAt(k))

\* a fitted prediction whose next hour enters the peak band: the bonus of 5
\* is exactly offset by the decay of 5
C9_Witness ==
    /\ prediction.made
    /\ prediction.method # "fallback"
    /\ ~IsPeakHour((prediction.hour + prediction.hoursAhead) % HoursPerDay)
    /\ ~IsNightHour((prediction.hour + prediction.hoursAhead) % HoursPerDay)
    /\ IsPeakHour((prediction.hour + prediction.hoursAhead + 1) % HoursPerDay)
    /\ RLt(R(25), prediction.confidence)
    /\ ConfidenceAt(prediction.hoursAhead + 1) = prediction.confidence

\* C10: the confidence of every prediction lies between 0 and 100.
C10_ConfidenceRange ==
    prediction.made
        => /\ RLe(R(0), prediction.confidence)
           /\ RLe(prediction.confidence, R(100))

\* a fitted prediction at a peak hour with the base confidence at its cap
C10_Witness ==
    /\ prediction.made
    /\ prediction.method # "fallback"
    /\ prediction.hoursAhead = 0
    /\ IsPeakHour(prediction.hour)
    /\ prediction.confidence = R(100)

----------------------------------------------------------------------------
(* Properties of the model kept beside the window, checked under Spec.     *)

\* C11: whenever the window holds 3 samples or more, the model is the fit of
\* the current window: its dataPoints equals the window length.
C11_ModelFresh ==
    (mounted /\ Len(priceHistory) >= MinFitPoints)
        => /\ regressionModel.fitted
           /\ regressionModel.dataPoints = Len(priceHistory)

----------------------------------------------------------------------------
(* Properties of the fit, checked under PredictSpec.                       *)

\* the polynomial R2 of y exceeds the linear R2 by more than 0.1
PolynomialBetter(y) ==
    \E lin \in {computeLinearRegression(Indices(Len(y)), y)},
       poly \in {computePolynomialRegression(Indices(Len(y)), y)} :
        RLt(RAdd(lin.rSquared, <<1, 10>>), poly.rSquared)

\* C13: the fitted model is the polynomial exactly when it was fitted on 5
\* samples or more and the polynomial R2 exceeds the linear R2 by more than
\* 0.1; otherwise it is the linear one.
C13_ModelSelection ==
    (prediction.made /\ prediction.method # "fallback")
        => prediction.method =
              (IF /\ Len(regressionModel.yData) >= 5
                  /\ PolynomialBetter(regressionModel.yData)
               THEN "polynomial" ELSE "linear")

\* a fit on 5 samples where the polynomial is better, but by 0.1 at most
C13_Witness ==
    /\ prediction.made
    /\ prediction.method = "linear"
    /\ Len(regressionModel.yData) = 5
    /\ \E lin \in {computeLinearRegression(Indices(5), regressionModel.yData)},
          poly \in {computePolynomialRegression(Indices(5), regressionModel.yData)} :
           /\ RLt(lin.rSquared, poly.rSquared)
           /\ RLe(poly.rSquared, RAdd(lin.rSquared, <<1, 10>>))

\* Upward above 0.01 per index, Downward below -0.01, otherwise Stable
SlopeLabel(slope) ==
    IF RLt(<<1, 1>>, slope) THEN "upward"
    ELSE IF RLt(slope, <<-1, 1>>) THEN "downward" ELSE "stable"

LinearSlopeLabel(y) ==
    CHOOSE l \in {SlopeLabel(computeLinearRegression(Indices(Len(y)), y).slope)} : TRUE

\* C14 as stated: the trend of every fitted model is the label of the linear
\* slope, also when the polynomial model is the selected one.
C14_TrendFromLinearSlope ==
    (prediction.made /\ prediction.method # "fallback")
        => prediction.trend = LinearSlopeLabel(regressionModel.yData)

\* C14 amended: the trend is the label of the linear slope when the linear
\* model is selected and 'complex' when the polynomial model is selected.
C14_TrendOrComplex ==
    (prediction.made /\ prediction.method # "fallback")
        => prediction.trend =
              (IF prediction.method = "linear"
               THEN LinearSlopeLabel(regressionModel.yData)
               ELSE "complex")

\* a prediction from a polynomial model fitted on rising prices
C14_Witness ==
    /\ prediction.made
    /\ prediction.method = "polynomial"
    /\ prediction.trend = "complex"
    /\ LinearSlopeLabel(regressionModel.yData) = "upward"

----------------------------------------------------------------------------
(* Properties of a prediction from an exact line, checked under            *)
(* PredictSpec.                                                            *)

IsLine(y) ==
    /\ Len(y) >= MinFitPoints
    /\ \A i \in 2..(Len(y) - 1) : y[i + 1] - y[i] = y[2] - y[1]

\* the target hour of the prediction is neither a peak nor a night hour
PlainTargetHour ==
    LET h == (prediction.hour + prediction.hoursAhead) % HoursPerDay
    IN ~IsPeakHour(h) /\ ~IsNightHour(h)

\* a prediction, at no peak or night hour, from the fit of the current
\* window, whose prices are an exact line
LinePredicted ==
    /\ prediction.made
    /\ IsLine(Prices(priceHistory))
    /\ regressionModel.fitted
    /\ regressionModel.yData = Prices(priceHistory)
    /\ PlainTargetHour

\* the value of the line of the window at the predicted index
LineValue ==
    LET y == Prices(priceHistory)
    IN y[Len(y)] + (y[2] - y[1]) * prediction.hoursAhead

\* at most 0.15 standard deviations of the last 10 prices
WithinNoise(d, hist) ==
    \E variance \in {Variance(hist)} : RLe(RSq(d), RMul(<<9, 400>>, variance))

\* C15 as stated, on its example 40, 42, 44, 46, 48: the fit is Linear with
\* rSquared 1, predict(0) is 48 and predict(1) is 50.
C15_LineRecovered ==
    (LinePredicted /\ Prices(priceHistory) = <<4000, 4200, 4400, 4600, 4800>>)
        => /\ prediction.method = "linear"
           /\ prediction.rSquared = R(1)
           /\ prediction.predictedPrice = R(LineValue)

\* C15 amended: on an exact line y = a*x + b the fit is Linear with slope a
\* and intercept b, rSquared is 1 (0 when a = 0), and predict(k) is the value
\* of the line plus a noise of at most 0.15 standard deviations of the last
\* 10 prices, raised to 10.00 when lower.
C15_LineWithinNoise ==
    LinePredicted
        => /\ prediction.method = "linear"
           /\ \E y \in {Prices(priceHistory)} :
                /\ prediction.rSquared = (IF y[2] = y[1] THEN R(0) ELSE R(1))
                /\ \E lin \in {computeLinearRegression(Indices(Len(y)), y)} :
                      lin.slope = R(y[2] - y[1]) /\ lin.intercept = R(y[1])
           /\ RLe(R(1000), prediction.predictedPrice)
           /\ \/ prediction.predictedPrice = R(1000)
              \/ WithinNoise(RSub(prediction.predictedPrice, R(LineValue)), priceHistory)

\* predict(1) on 40, 42, 44, 46, 48 at 7 o'clock: Linear, rSquared 1, 50.40
C15_Witness ==
    /\ LinePredicted
    /\ Prices(priceHistory) = <<4000, 4200, 4400, 4600, 4800>>
    /\ prediction.hoursAhead = 1
    /\ prediction.method = "linear"
    /\ prediction.rSquared = R(1)
    /\ prediction.predictedPrice = R(5040)

----------------------------------------------------------------------------
(* Two invocations of the predictor in one state, checked under            *)
(* PredictSpec.                                                            *)

\* what another invocation with the same window, model, horizon and hour
\* can return
Reinvocations ==
    PredictionsAt(priceHistory, regressionModel, currentPrice,
                  {prediction.hour}, {prediction.hoursAhead})

\* C16 as stated: a second invocation with the same window, model, horizon
\* and hour returns the same predictedPrice, confidence, method and trend.
C16_Deterministic ==
    prediction.made
        => \A q \in Reinvocations :
              /\ q.predictedPrice = prediction.predictedPrice
              /\ q.confidence = prediction.confidence
              /\ q.method = prediction.method
              /\ q.trend = prediction.trend

\* C16 amended: a second invocation returns the same confidence, method and
\* trend; its predictedPrice can differ, at a target hour that is neither
\* peak nor night by at most 0.3 standard deviations of the last 10 prices.
C16_DeterministicButPrice ==
    prediction.made
        => \A q \in Reinvocations :
              /\ q.confidence = prediction.confidence
              /\ q.method = prediction.method
              /\ q.trend = prediction.trend
              /\ PlainTargetHour =>
                    \E variance \in {Variance(priceHistory)} :
                        RLe(RSq(RSub(q.predictedPrice, prediction.predictedPrice)),
                            RMul(<<9, 100>>, variance))

\* two invocations on one fitted model that return different prices
C16_Witness ==
    /\ prediction.made
    /\ prediction.method # "fallback"
    /\ PlainTargetHour
    /\ \E q \in Reinvocations :
          /\ q.predictedPrice # prediction.predictedPrice
          /\ q.confidence = prediction.confidence

----------------------------------------------------------------------------
(* Eviction and sample prices, checked under Spec.                         *)

\* C19: a tick or an admitted market update on a window of 50 samples evicts
\* exactly the oldest one: the new window is the old one without its first
\* sample, followed by the new sample.
C19_FifoEviction ==
    [][(/\ Len(priceHistory) = WindowCap
        /\ \/ SimulatedTick
           \/ \E p \in MarketPrices : p > 0 /\ ~RecentDuplicate(p) /\ MarketUpdate(p))
          => /\ Len(priceHistory') = WindowCap
             /\ \A i \in 1..(WindowCap - 1) : priceHistory'[i] = priceHistory[i + 1]
             /\ priceHistory'[WindowCap].timestamp = now]_vars

\* the oldest bootstrap sample has been evicted, the second oldest is first
C19_Witness ==
    /\ mounted
    /\ Len(priceHistory) = WindowCap
    /\ appended = WindowCap - SyntheticCount + 1
    /\ priceHistory[1].timestamp = -((SyntheticCount - 2) * SyntheticSpacing)
    /\ priceHistory[WindowCap].timestamp = now

\* C20: every sample of the window has a price above 0, whatever market
\* price is reported.
C20_PositivePrices ==
    mounted => \A i \in 1..Len(priceHistory) : priceHistory[i].price > 0

----------------------------------------------------------------------------
(* Properties of the day-ahead bids, checked under BidSpec.                *)

\* C17: whatever the sequence or interleaving of submitBid invocations,
\* the day-ahead bid list never holds more than 10 bids.
C17_BidCap == Len(dayAheadBids) <= 10

\* C18: submitBid invoked when the local hour is 11 or later only shows the
\* "closed" alert: it starts no submission (so no bid is created later) and
\* leaves the bid list, the portfolio and the bid form as they were.
C18_DeadlineEnforced ==
    [][(localHour >= 11 /\ submitBid) =>
          /\ alertShown' = "closed"
          /\ UNCHANGED <<dayAheadBids, portfolio, bidForm, submissions, submitted>>]_vars

C18_Witness == localHour >= 11 /\ alertShown = "closed"

----------------------------------------------------------------------------
(* Later properties of the window, checked under Spec.                     *)

\* C21: after the bootstrap no step makes the window shorter, and a
\* mounted component whose window holds at least 3 samples is never in the
\* insufficient-data state, before or after the step.
C21_WindowNeverShrinks ==
    [][mounted =>
          /\ Len(priceHistory') >= Len(priceHistory)
          /\ (Len(priceHistory) >= MinFitPoints =>
                 /\ ~UsesFallback(priceHistory, regressionModel)
                 /\ ~UsesFallback(priceHistory', regressionModel'))]_vars

C21_Witness ==
    /\ mounted
    /\ Len(priceHistory) = WindowCap
    /\ lastRecord = "duplicate"
    /\ ~UsesFallback(priceHistory, regressionModel)

----------------------------------------------------------------------------
(* The time-of-day adjustment, checked under PredictSpec.                  *)

\* the regression price at the predicted index, before any adjustment
RegressionPrice(fit) ==
    LET futureIndex == Len(priceHistory) - 1 + prediction.hoursAhead
    IN IF fit.type = "linear"
       THEN RAdd(RMul(fit.slope, R(futureIndex)), fit.intercept)
       ELSE RAdd(fit.coefficients[1],
                 RAdd(RMul(fit.coefficients[2], R(futureIndex)),
                      RMul(fit.coefficients[3], R(futureIndex * futureIndex))))

\* C22: for a prediction from the fit, with target hour t = (hour + steps)
\* mod 24: when t is in 8..12 or 18..22 the price lies above the regression
\* price (up to the noise) and the confidence gains 5; when t is 23 or in
\* 0..6 the price lies below it (up to the noise and the floor of 10.00)
\* and the confidence gains 3; at every other hour the price is the
\* regression price (up to the noise and the floor) and the confidence
\* gains nothing; no hour is both.
C22_TimeOfDayShape ==
    (prediction.made /\ prediction.method # "fallback") =>
       \E fit \in {SelectedModel(regressionModel.yData)} :
       \E raw \in {RegressionPrice(fit)} :
          LET t == (prediction.hour + prediction.hoursAhead) % 24
              peak == t \in (8..12) \cup (18..22)
              night == t = 23 \/ t \in 0..6
              gain == IF peak THEN 5 ELSE IF night THEN 3 ELSE 0
              d == RSub(prediction.predictedPrice, raw)
          IN /\ ~(peak /\ night)
             /\ prediction.confidence =
                   RMax(R(25), RSub(RAdd(RMin(R(95), RMul(fit.rSquared, R(100))), R(gain)),
                                    R(5 * prediction.hoursAhead)))
             /\ RLt(R(0), raw)
             /\ peak => (RLt(R(0), d) \/ WithinNoise(d, priceHistory))
             /\ night => \/ RLt(d, R(0))
                         \/ WithinNoise(d, priceHistory)
                         \/ prediction.predictedPrice = R(1000)
             /\ (~peak /\ ~night) => \/ WithinNoise(d, priceHistory)
                                     \/ prediction.predictedPrice = R(1000)

\* 40, 42, 44, 46, 48 predicted at 22 o'clock for 22 and for 23 o'clock:
\* 48 * 1.05 = 50.40 with confidence 100, and 50 * 0.92 = 46.00 with
\* confidence 95 + 3 - 5 = 93
C22_Witness ==
    /\ prediction.made
    /\ Prices(priceHistory) = <<4000, 4200, 4400, 4600, 4800>>
    /\ regressionModel.yData = Prices(priceHistory)
    /\ prediction.hour = 22
    /\ \/ prediction.hoursAhead = 0 /\ prediction.predictedPrice = R(5040)
                                    /\ prediction.confidence = R(100)
       \/ prediction.hoursAhead = 1 /\ prediction.predictedPrice = R(4600)
                                    /\ prediction.confidence = R(93)

----------------------------------------------------------------------------
(* Resolution of the bids and the cash balance, checked under BidSpec.     *)

Resolved(bid) == bid.status \in {"executed", "rejected"}

PositionsOf(id, pf) == {j \in 1..Len(pf.positions) : pf.positions[j].bid = id}

\* C23: a bid that is executed or rejected keeps that status in every later
\* step, and no bid ever has more than one position (each position comes
\* with its one cash adjustment).
C23_ResolvedOnce ==
    [][/\ \A i \in 1..Len(dayAheadBids) :
            (/\ Resolved(dayAheadBids[i])
             /\ i <= Len(dayAheadBids')
             /\ dayAheadBids'[i].id = dayAheadBids[i].id)
                => dayAheadBids'[i].status = dayAheadBids[i].status
       /\ \A i \in 1..Len(dayAheadBids') :
            Cardinality(PositionsOf(dayAheadBids'[i].id, portfolio')) <= 1]_vars

\* C24: the cash balance of the portfolio is never negative.
C24_CashNonNegative == portfolio.cashBalance >= 0

\* price x quantity of a bid, negative for a buy
CashEffect(action, price, quantity) ==
    IF action = "buy" THEN -(price * quantity) ELSE price * quantity

RECURSIVE CashEffects(_)
CashEffects(bids) ==
    IF bids = <<>> THEN 0
    ELSE CashEffect(Head(bids).action, Head(bids).price, Head(bids).quantity)
            + CashEffects(Tail(bids))

\* C25: the step that executes a bid moves the cash balance by exactly
\* price x quantity of the bid (down for a buy, up for a sell) from the
\* balance held before the step, whatever that balance is; the step that
\* rejects a bid leaves the portfolio as it was.
C25_ExactCashChange ==
    [][/\ \A c \in submissions :
            /\ PositionAdded(c) =>
                  portfolio'.cashBalance = portfolio.cashBalance
                      + CashEffect(c.form.action, c.form.price, c.form.quantity)
            /\ (StatusUpdated(c) /\ ~c.isExecuted) => portfolio' = portfolio
       /\ forceExecutePendingBids =>
             portfolio'.cashBalance = portfolio.cashBalance
                 + CashEffects(PendingBids(dayAheadBids))]_vars

----------------------------------------------------------------------------
(* Settlement of the bids, checked under BidLiveSpec.                      *)

\* the identifiers submitBid gives to its bids
SubmittedIds == {100 + k : k \in 0..(MaxSubmits - 1)}

IsPending(id) ==
    \E i \in 1..Len(dayAheadBids) :
        dayAheadBids[i].id = id /\ dayAheadBids[i].status = "pending"

----------------------------------------------------------------------------
(* Properties of the suggestions, checked under SuggestSpec.               *)

\* C27: while the auto-suggestions are active, the displayed list of a
\* mounted component is never empty, whatever modes and types were
\* selected; and every generation holds at least 3 buy and 3 sell
\* suggestions for each analysis mode before the filtering.
C27_NeverBlank ==
    suggestionsMounted =>
       /\ suggestionsActive => suggestions # {}
       /\ \A mode \in AnalysisModes, action \in SuggestionActions :
             Cardinality(OfModeAndAction(allSuggestions, mode, action)) >= 3

\* C28: every displayed suggestion has the selected analysis mode and an
\* action the selected suggestion type permits, also when the mode or
\* the type was changed while the auto-suggestions are paused.
C28_MatchesSelection ==
    suggestionsMounted =>
       \A x \in suggestions :
          /\ x.analysisMode = analysisMode
          /\ suggestionType = "both" \/ x.action = suggestionType

----------------------------------------------------------------------------
(* Properties of the WebSocket service, checked under SocketSpec.          *)

Opens(s) == sockets[s] = "connecting" /\ sockets'[s] = "open"

\* C29: between two successful opens at most maxReconnectAttempts (5)
\* reconnects are scheduled, every successful open resets the attempt
\* counter to 0, and once five reconnects were scheduled without an open
\* in between, no step starts another reconnect timer.
C29_BoundedReconnect ==
    [][/\ scheduledSinceOpen' <= maxReconnectAttempts
       /\ (\E s \in DOMAIN sockets : Opens(s)) =>
             reconnectAttempts' = 0 /\ scheduledSinceOpen' = 0
       /\ scheduledSinceOpen = maxReconnectAttempts => timers' <= timers]_vars

\* the fifth reconnect attempt has failed: five reconnects were scheduled
\* since the last open, every timer has fired and every socket is closed
C29_Witness ==
    /\ scheduledSinceOpen = maxReconnectAttempts
    /\ reconnectAttempts = maxReconnectAttempts
    /\ timers = 0
    /\ Len(sockets) > maxReconnectAttempts
    /\ \A s \in DOMAIN sockets : sockets[s] = "closed"

\* C30: after disconnect() on a connected service, and until connect() is
\* called again, no reconnect timer is started and no socket is created.
C30_StaysDisconnected ==
    [][(stayDisconnected /\ stayDisconnected') =>
          /\ timers' <= timers
          /\ Len(sockets') = Len(sockets)]_vars

====
